---- MODULE Spec2Model ----
(***************************************************************************)
(* A model of CDP_MCP_v7.py: the tool handlers of the CDP adapter          *)
(* (list_cdp_programs, get_cdp_usage, execute_cdp, create_data_file,       *)
(* analyze_sound) over a filesystem and an external process.               *)
(*                                                                         *)
(* Text.  A Python str is a sequence of atoms; an atom is a TLA+ string    *)
(* standing for one or more characters that the code never looks inside.   *)
(* The characters the code does look for ("-", ".", "/", " ") are always   *)
(* atoms of their own, so startswith, endswith and `in` are computed on    *)
(* the sequence.  The content of a data file is a sequence of code points  *)
(* (integers), because its byte length depends on them.                    *)
(*                                                                         *)
(* Filesystem.  A path is a str; a relative path is resolved against a    *)
(* directory.  fs maps the absolute paths of interest to a kind            *)
(* ("absent", "present", or "denied": stat fails with an OSError that      *)
(* pathlib does not swallow, e.g. EACCES or ENAMETOOLONG) and the bytes    *)
(* stored.  The install directory is described by cdpDir.                  *)
(***************************************************************************)
EXTENDS Integers, Sequences, FiniteSets, TLC

VARIABLES
    fs,      \* the filesystem outside the install directory
    cwd,     \* the working directory of the server process
    cdpDir,  \* the install directory: [state, entries]
    call,    \* the tool call handled last: its name, inputs and process outcome
    resp,    \* what that call gave back: a response record, or an escaped exception
    fsB,     \* a second filesystem, for comparing two histories of calls
    respB    \* the response of the call handled last in the second history

vars == <<fs, cwd, cdpDir, call, resp, fsB, respB>>

(***************************** bounds **************************************)

\* Longest command array handed to execute_cdp.
MaxCmdLen == 3

\* Longest content (in code points) handed to create_data_file.
MaxContentLen == 3

(***************************** text ****************************************)

EMPTY == <<>>

\* Python truthiness of a str.
Truthy(s) == s # EMPTY

\* s.startswith(a) for a one-atom prefix a.
StartsWith(s, a) == Len(s) >= 1 /\ s[1] = a

\* s.endswith(suffix).
EndsWith(s, suffix) ==
    /\ Len(s) >= Len(suffix)
    /\ SubSeq(s, Len(s) - Len(suffix) + 1, Len(s)) = suffix

\* needle in s (substring search).
IsIn(needle, s) ==
    \E i \in 0..(Len(s) - Len(needle)) : SubSeq(s, i + 1, i + Len(needle)) = needle

\* str.lower(), atom by atom.
LowerAtom(a) ==
    CASE a = "USAGE:" -> "usage:"
      [] a = "Usage:" -> "usage:"
      [] a = "MODES:" -> "modes:"
      [] a = "Blur"   -> "blur"
      [] a = "Command timed out " -> "command timed out "
      [] OTHER -> a

Lower(s) == [i \in 1..Len(s) |-> LowerAtom(s[i])]

RECURSIVE JoinSpace(_)
\* " ".join(command)
JoinSpace(command) ==
    IF command = <<>> THEN EMPTY
    ELSE IF Len(command) = 1 THEN command[1]
    ELSE command[1] \o <<" ">> \o JoinSpace(Tail(command))

(***************************** paths and files *****************************)

CDP_PATH == <<"/", "cdprogs">>

TEMP_DIR == <<"/", "tmp", "/", "cdp_mcp">>

\* A directory the server may have been started in, other than TEMP_DIR.
HOME_DIR == <<"/", "home">>

WorkDirs == {TEMP_DIR, HOME_DIR}

\* os.path.isabs
IsAbs(p) == StartsWith(p, "/")

\* pathlib's base / p: an absolute p replaces the base.
PathJoin(base, p) == IF IsAbs(p) THEN p ELSE base \o <<"/">> \o p

\* The install directory holds p directly.
UnderCdp(p) ==
    /\ Len(p) > Len(CDP_PATH) + 1
    /\ SubSeq(p, 1, Len(CDP_PATH) + 1) = CDP_PATH \o <<"/">>

NameUnderCdp(p) == SubSeq(p, Len(CDP_PATH) + 2, Len(p))

\* What stat() finds at the absolute path p.
StatKind(f, cdp, p) ==
    IF UnderCdp(p)
    THEN CASE cdp.state = "missing" -> "absent"
           [] cdp.state = "staterr" -> "denied"
           [] OTHER -> IF \E e \in cdp.entries : e.name = NameUnderCdp(p)
                       THEN "present" ELSE "absent"
    ELSE IF p \in DOMAIN f THEN f[p].kind ELSE "absent"

\* Path(p).exists() in a process whose working directory is dir:
\* "true", "false", or "raise" (an OSError other than ENOENT, ENOTDIR, EBADF, ELOOP).
PathExists(f, cdp, dir, p) ==
    LET k == StatKind(f, cdp, PathJoin(dir, p))
    IN  CASE k = "present" -> "true"
          [] k = "absent"  -> "false"
          [] OTHER         -> "raise"

\* An exception that leaves the handler: the caller gets no response record.
Raised == [exception |-> "OSError"]

IsRaised(r) == "exception" \in DOMAIN r

\* The bytes an external program leaves in a file it creates (opaque here).
ProcBytes == <<82, 73>>

(***************************** execute_cdp *********************************)

NotFoundMsg(program, cmd_path) ==
    <<"Program '">> \o program \o <<"' not found at ">> \o cmd_path

\* The external program's run: it exits (rc, stdout, stderr; wrote: it created
\* the file its last argument names), or launching it fails ("oserror").
\* The filesystem after the run: the process runs with cwd = TEMP_DIR.
FsAfterRun(f, cdp, command, out) ==
    LET target == PathJoin(TEMP_DIR, command[Len(command)])
    IN  IF /\ out.kind = "exit"
           /\ out.wrote
           /\ Len(command) >= 2
           /\ target \in DOMAIN f
           /\ f[target].kind # "denied"
        THEN [f EXCEPT ![target] = [kind |-> "present", data |-> ProcBytes]]
        ELSE f

\* [raised, launched, ran, rc, stdout, stderr]
run_cdp_command(f, cdp, command, out) ==
    IF command = <<>>
    THEN [raised |-> FALSE, launched |-> FALSE, ran |-> FALSE, rc |-> -1, stdout |-> EMPTY,
          stderr |-> <<"Empty command array">>]
    ELSE LET program  == command[1]
             cmd_path == PathJoin(CDP_PATH, program)
             k        == StatKind(f, cdp, cmd_path)
         IN  CASE k = "denied" ->
                    [raised |-> TRUE, launched |-> FALSE, ran |-> FALSE, rc |-> -1, stdout |-> EMPTY,
                     stderr |-> EMPTY]
               [] k = "absent" ->
                    [raised |-> FALSE, launched |-> FALSE, ran |-> FALSE, rc |-> -1, stdout |-> EMPTY,
                     stderr |-> NotFoundMsg(program, cmd_path)]
               [] OTHER ->
                    IF out.kind = "oserror"
                    THEN [raised |-> FALSE, launched |-> TRUE, ran |-> FALSE, rc |-> -1,
                          stdout |-> EMPTY, stderr |-> <<"Execution failed: ", "errtext">>]
                    ELSE [raised |-> FALSE, launched |-> TRUE, ran |-> TRUE, rc |-> out.rc,
                          stdout |-> out.stdout, stderr |-> out.stderr]

\* The first two signals of the success heuristic; when one holds, Python's
\* `or` does not evaluate the third.
ExitSignals(rc, stdout, stderr) ==
    rc = 0 \/ (rc = 1 /\ Truthy(stdout) /\ ~Truthy(stderr))

\* The mutant of InferSuccess: the output-file signal is left out.
InferSuccessNoFile(rc, stdout, stderr, n, lastExists) ==
    ExitSignals(rc, stdout, stderr)

\* success = exit 0, or exit 1 with stdout and no stderr, or the last of more
\* than two elements names an existing path.
InferSuccess(rc, stdout, stderr, n, lastExists) ==
    ExitSignals(rc, stdout, stderr) \/ (n > 2 /\ lastExists = "true")

\* The handler: [resp, fs] (the response, the filesystem it leaves).
execute_cdp(f, cdp, dir, command, out) ==
    IF command = <<>>
    THEN [resp |-> [status |-> "failed", error |-> <<"Empty command array provided">>],
          fs |-> f, launched |-> FALSE]
    ELSE
    LET r == run_cdp_command(f, cdp, command, out)
    IN  IF r.raised THEN [resp |-> Raised, fs |-> f, launched |-> FALSE]
        ELSE
        LET f2    == IF r.ran THEN FsAfterRun(f, cdp, command, out) ELSE f
            n     == Len(command)
            last  == command[n]
            lastExists == PathExists(f2, cdp, dir, last)
            success == InferSuccess(r.rc, r.stdout, r.stderr, n, lastExists)
            result == [status    |-> IF success THEN "success" ELSE "failed",
                       exit_code |-> r.rc,
                       command   |-> JoinSpace(command),
                       stdout    |-> r.stdout,
                       stderr    |-> r.stderr]
            fileOp == n > 2 /\ ~StartsWith(last, "-") /\ IsIn(<<".">>, last)
        IN  IF ~ExitSignals(r.rc, r.stdout, r.stderr) /\ n > 2 /\ lastExists = "raise"
            THEN [resp |-> Raised, fs |-> f2, launched |-> r.launched]
            ELSE IF fileOp /\ lastExists = "raise"
            THEN [resp |-> Raised, fs |-> f2, launched |-> r.launched]
            ELSE IF fileOp /\ lastExists = "true"
            THEN [resp |-> result @@ [output_file |-> last, output_exists |-> TRUE],
                  fs |-> f2, launched |-> r.launched]
            ELSE IF fileOp
            THEN [resp |-> result @@ [output_file |-> last], fs |-> f2, launched |-> r.launched]
            ELSE [resp |-> result, fs |-> f2, launched |-> r.launched]

(***************************** get_cdp_usage *******************************)

\* timeout=5 of subprocess.run in the usage probe.
UsageTimeout == 5

TimeoutMsg == <<"Command timed out ", "-", " program may be waiting for input">>

\* (rc, output, stderr) of the usage probe, or an escaped exception.
\* out: [kind: "exit" | "oserror", rc, stdout, stderr, secs]; a run longer than
\* the timeout ends in TimeoutExpired.
run_cdp_for_usage(f, cdp, program, subprogram, out) ==
    LET cmd_path == PathJoin(CDP_PATH, program)
        k        == StatKind(f, cdp, cmd_path)
    IN  CASE k = "denied" ->
               [raised |-> TRUE, rc |-> -1, output |-> EMPTY, stderr |-> EMPTY]
          [] k = "absent" ->
               [raised |-> FALSE, rc |-> -1, output |-> EMPTY,
                stderr |-> NotFoundMsg(program, cmd_path)]
          [] OTHER ->
               IF out.kind = "oserror"
               THEN [raised |-> FALSE, rc |-> -1, output |-> EMPTY,
                     stderr |-> <<"Failed to execute: ", "errtext">>]
               ELSE IF out.secs > UsageTimeout
               THEN [raised |-> FALSE, rc |-> -1, output |-> EMPTY,
                     stderr |-> TimeoutMsg]
               ELSE [raised |-> FALSE, rc |-> out.rc,
                     output |-> IF Truthy(out.stdout) THEN out.stdout ELSE out.stderr,
                     stderr |-> out.stderr]

\* The response built from the probe's (exit_code, output, stderr).
\* subprogram None is the empty str here: both are falsy wherever the code reads it.
UsageResponse(program, subprogram, exit_code, output, stderr) ==
    LET text == IF Truthy(output) THEN output ELSE stderr
        response == [program    |-> program,
                     subprogram |-> IF Truthy(subprogram) THEN subprogram ELSE <<"none">>,
                     usage_text |-> text,
                     exit_code  |-> exit_code]
        hasText  == Truthy(output) \/ Truthy(stderr)
        h1 == IF hasText /\ (IsIn(<<"USAGE:">>, text) \/ IsIn(<<"Usage:">>, text))
              THEN [has_usage |-> TRUE] ELSE <<>>
        h2 == IF hasText /\ (IsIn(<<"MODES:">>, text) \/ IsIn(<<"Modes:">>, text))
              THEN [has_modes |-> TRUE] ELSE <<>>
        h3 == IF hasText /\ (\E flag \in {"-", "FLAGS:", "Options:"} : IsIn(<<flag>>, text))
              THEN [has_flags |-> TRUE] ELSE <<>>
        h4 == IF hasText /\ IsIn(program \o <<" ">> \o program, Lower(text))
              THEN [note |-> <<"This program uses double syntax: ">>
                             \o program \o <<" ">> \o program]
              ELSE <<>>
    IN  response @@ h1 @@ h2 @@ h3 @@ h4

get_cdp_usage(f, cdp, program, subprogram, out) ==
    LET r == run_cdp_for_usage(f, cdp, program, subprogram, out)
    IN  IF r.raised THEN Raised
        ELSE UsageResponse(program, subprogram, r.rc, r.output, r.stderr)

(***************************** create_data_file ****************************)

\* Characters of the preview.
PreviewLen == 200

\* UTF-8, the encoding write_text uses (the locale's, UTF-8 on the code's platform).
Utf8(cp) ==
    IF cp < 128 THEN <<cp>>
    ELSE IF cp < 2048 THEN <<192 + (cp \div 64), 128 + (cp % 64)>>
    ELSE <<224 + (cp \div 4096), 128 + ((cp \div 64) % 64), 128 + (cp % 64)>>

\* os.linesep on the code's platform: text mode writes it for every "\n".
LineSep == <<10>>

RECURSIVE EncodeText(_)
\* The bytes write_text stores for content.
EncodeText(content) ==
    IF content = <<>> THEN <<>>
    ELSE (IF Head(content) = 10 THEN LineSep ELSE Utf8(Head(content)))
         \o EncodeText(Tail(content))

RECURSIVE DecodeUtf8(_)
\* The text the stored bytes decode to.
DecodeUtf8(bytes) ==
    IF bytes = <<>> THEN <<>>
    ELSE IF bytes[1] < 128
    THEN <<bytes[1]>> \o DecodeUtf8(Tail(bytes))
    ELSE IF bytes[1] < 224
    THEN <<(bytes[1] - 192) * 64 + (bytes[2] - 128)>> \o DecodeUtf8(SubSeq(bytes, 3, Len(bytes)))
    ELSE <<(bytes[1] - 224) * 4096 + (bytes[2] - 128) * 64 + (bytes[3] - 128)>>
         \o DecodeUtf8(SubSeq(bytes, 4, Len(bytes)))

IsSpace(cp) == cp \in {9, 10, 11, 12, 13, 32}

RECURSIVE LStrip(_)
LStrip(s) == IF s # <<>> /\ IsSpace(Head(s)) THEN LStrip(Tail(s)) ELSE s

RECURSIVE RStrip(_)
RStrip(s) ==
    IF s # <<>> /\ IsSpace(s[Len(s)]) THEN RStrip(SubSeq(s, 1, Len(s) - 1)) ELSE s

\* str.strip()
Strip(s) == RStrip(LStrip(s))

\* len(s.split('\n'))
SplitCount(s) == 1 + Cardinality({i \in 1..Len(s) : s[i] = 10})

Preview(content) ==
    IF Len(content) > PreviewLen
    THEN SubSeq(content, 1, PreviewLen) \o <<46, 46, 46>>
    ELSE content

\* The handler: [resp, fs].  io = "oserror": the write fails for a reason of
\* its own (no space, a read-only volume).
create_data_file(f, cdp, filepath, content, io) ==
    LET path == IF ~IsAbs(filepath) THEN PathJoin(TEMP_DIR, filepath) ELSE filepath
        k    == StatKind(f, cdp, path)
        failed == [resp |-> [status |-> "failed",
                             error  |-> <<"Failed to create data file: ", "errtext">>],
                   fs |-> f]
    IN  \* write_text raises: the path cannot be opened, or the write fails
        \* (a path outside the modelled filesystem cannot be opened either).
        IF k = "denied" \/ io = "oserror" \/ path \notin DOMAIN f
        THEN failed
        ELSE
        LET f2 == [f EXCEPT ![path] = [kind |-> "present", data |-> EncodeText(content)]]
        IN  IF PathExists(f2, cdp, TEMP_DIR, path) = "true"
            THEN [resp |-> [status   |-> "success",
                            filepath |-> path,
                            lines    |-> SplitCount(Strip(content)),
                            size     |-> Len(content),
                            preview  |-> Preview(content)],
                  fs |-> f2]
            ELSE [resp |-> [status |-> "failed", error |-> <<"File was not created">>],
                  fs |-> f2]

(***************************** analyze_sound *******************************)

\* snd: whether the audio library can read the file.
get_sound_info(filepath, snd) ==
    IF snd = "readable"
    THEN [duration |-> 1, sample_rate |-> 44100, channels |-> 2,
          peak_amplitude |-> 1, format |-> <<"WAV">>, frames |-> 44100]
    ELSE [error |-> <<"errtext">>]

analyze_sound(f, cdp, dir, filepath, snd) ==
    LET e == PathExists(f, cdp, dir, filepath)
    IN  CASE e = "raise" -> Raised
          [] e = "false" -> [error |-> <<"File not found: ">> \o filepath]
          [] OTHER       -> get_sound_info(filepath, snd)

(***************************** scan_cdp_programs ***************************)

CategoryOrder ==
    <<"Spectral Processing", "Time Domain", "Synthesis", "Analysis and Utility", "Other">>

CDP_CATEGORIES ==
    [c \in {CategoryOrder[i] : i \in 1..Len(CategoryOrder)} |->
        CASE c = "Spectral Processing" ->
               {<<"blur">>, <<"clean">>, <<"combine">>, <<"cross">>, <<"focus">>,
                <<"formants">>, <<"gate">>, <<"get">>, <<"hilite">>, <<"morph">>,
                <<"pitch">>, <<"spec">>, <<"strange">>, <<"stretch">>}
          [] c = "Time Domain" ->
               {<<"modify">>, <<"distort">>, <<"envel">>, <<"extend">>, <<"filter">>,
                <<"grain">>, <<"sfedit">>, <<"zigzag">>}
          [] c = "Synthesis" ->
               {<<"synth">>, <<"texture">>, <<"fracture">>}
          [] c = "Analysis and Utility" ->
               {<<"pvoc">>, <<"sndinfo">>, <<"housekeep">>, <<"submix">>, <<"mchshred">>}
          [] OTHER -> {}]

\* The file names the model puts in the install directory, in sorted() order.
NameOrder ==
    << <<".", "hidden">>, <<"blur">>, <<"notes", ".", "txt">>, <<"pvoc">>, <<"zap">> >>

\* sorted(programs)
SortedNames(S) == SelectSeq(NameOrder, LAMBDA x : x \in S)

\* The first category, in the table's order, that lists prog; 0 if none does.
CategoryIndex(prog) ==
    LET hits == {i \in 1..Len(CategoryOrder) : prog \in CDP_CATEGORIES[CategoryOrder[i]]}
    IN  IF hits = {} THEN 0 ELSE CHOOSE i \in hits : \A j \in hits : i <= j

\* The mutant of RemoveEmpty: the empty categories stay.
KeepEmpty(categorized) == categorized

\* {k: v for k, v in categorized.items() if v}
RemoveEmpty(categorized) ==
    [k \in {c \in DOMAIN categorized : categorized[c] # <<>>} |-> categorized[k]]

\* cdp: [state: "missing" | "staterr" | "noread" | "ok", entries], an entry being
\* [name, isfile, exec].  The result maps category names to sequences of names.
scan_cdp_programs(cdp) ==
    CASE cdp.state = "staterr" -> Raised
      [] cdp.state = "missing" ->
           [error |-> << <<"CDP directory not found: ">> \o CDP_PATH >>]
      [] cdp.state = "noread" ->
           [error |-> << <<"Failed to scan CDP directory: ", "errtext">> >>]
      [] OTHER ->
           LET programs == {e.name : e \in {x \in cdp.entries :
                                /\ x.isfile
                                /\ x.exec
                                /\ ~StartsWith(x.name, ".")
                                /\ ~EndsWith(x.name, <<".", "txt">>)}}
               sorted == SortedNames(programs)
               uncategorized == SelectSeq(sorted, LAMBDA x : CategoryIndex(x) = 0)
               byTable == [c \in DOMAIN CDP_CATEGORIES |->
                             SelectSeq(sorted, LAMBDA x :
                                 /\ CategoryIndex(x) # 0
                                 /\ CategoryOrder[CategoryIndex(x)] = c)]
               categorized == IF uncategorized # <<>>
                              THEN [byTable EXCEPT !["Other"] = uncategorized]
                              ELSE byTable
           IN  RemoveEmpty(categorized)

list_cdp_programs(cdp) == scan_cdp_programs(cdp)

(***************************** inputs ***************************************)

Programs == {<<"blur">>, <<"nope">>}

OutWav == <<"out", ".", "wav">>

\* What follows the program in a command: a relative file name, a flag, and
\* the same file name as an absolute path in the scratch directory.
Args == {OutWav, <<"-", "f">>, TEMP_DIR \o <<"/">> \o OutWav}

\* The absolute paths the arguments can name.
Locs == {PathJoin(d, a) : d \in WorkDirs, a \in Args}

RECURSIVE SeqsUpTo(_, _)
\* The sequences over S of length at most n.
SeqsUpTo(S, n) ==
    IF n = 0 THEN {<<>>}
    ELSE LET shorter == SeqsUpTo(S, n - 1)
         IN  shorter \cup {Append(q, x) : q \in {t \in shorter : Len(t) = n - 1}, x \in S}

\* Command arrays: empty, or a program followed by arguments.
Commands ==
    {<<>>} \cup {<<p>> \o rest : p \in Programs, rest \in SeqsUpTo(Args, MaxCmdLen - 1)}

Texts == {EMPTY, <<"text">>}

NoOutcome == [kind |-> "none"]

\* What a launched process can do: fail to start, or exit.
ExecOutcomes ==
    {[kind |-> "oserror", rc |-> -1, stdout |-> EMPTY, stderr |-> EMPTY, wrote |-> FALSE]}
    \cup [kind : {"exit"}, rc : {0, 1, 2}, stdout : Texts, stderr : Texts, wrote : BOOLEAN]

\* Code points of a data file: "a", "\n", e-acute.
Chars == {97, 10, 233}

Contents == SeqsUpTo(Chars, MaxContentLen)

\* Contents used when calls of all kinds interleave.
FewContents == {<<97>>, <<233, 10>>}

UsageTexts ==
    {EMPTY, TimeoutMsg, <<"USAGE:", " ", "blur", " ", "blur", " ", "infile">>,
     <<"MODES:", " ", "Options:">>}

\* rc: 0, 1, 255 (the usual exit of a usage display), -1 (ended by signal 1).
UsageOutcomes ==
    {[kind |-> "oserror", rc |-> -1, stdout |-> EMPTY, stderr |-> EMPTY, secs |-> 1],
     [kind |-> "exit", rc |-> 0, stdout |-> EMPTY, stderr |-> EMPTY,
      secs |-> UsageTimeout + 1]}
    \cup [kind : {"exit"}, rc : {-1, 0, 1, 255}, stdout : UsageTexts,
          stderr : UsageTexts, secs : {1}]

FewUsageOutcomes ==
    {o \in UsageOutcomes : o.rc \in {-1, 255} /\ o.stdout = EMPTY
                           /\ o.stderr \in {EMPTY, TimeoutMsg}}

Subprograms == {EMPTY, <<"brassage">>}

Absent == [kind |-> "absent", data |-> <<>>]

FileStates ==
    {Absent, [kind |-> "denied", data |-> <<>>], [kind |-> "present", data |-> ProcBytes]}

BlurEntry == [name |-> <<"blur">>, isfile |-> TRUE, exec |-> TRUE]

\* Install directories when calls of all kinds interleave.
FewCdpDirs ==
    {[state |-> "staterr", entries |-> {}],
     [state |-> "ok", entries |-> {BlurEntry}]}

\* Install directories for the directory scan: any state, any set of entries.
Entries ==
    [name : {NameOrder[i] : i \in 1..Len(NameOrder)}, isfile : BOOLEAN, exec : BOOLEAN]

OneEntryPerName(E) == \A a \in E, b \in E : a.name = b.name => a = b

CdpDirs ==
    {[state |-> "missing", entries |-> {}], [state |-> "staterr", entries |-> {}]}
    \cup {[state |-> st, entries |-> E] :
             st \in {"ok", "noread"}, E \in {X \in SUBSET Entries : OneEntryPerName(X)}}

\* The filesystems a run starts from: any mix of absent, present and unstatable
\* paths (the unstatable ones among the paths that look like files).
InitialFs ==
    {f \in [Locs -> FileStates] :
        \A l \in Locs : f[l].kind = "denied" => EndsWith(l, OutWav)}

(***************************** the server **********************************)

Idle == [op |-> "none"]

NoResp == [none |-> TRUE]

TypeOK ==
    /\ fs \in [Locs -> [kind : {"absent", "denied", "present"}, data : Seq(0..255)]]
    /\ cwd \in WorkDirs
    /\ call.op \in {"none", "list", "usage", "execute", "create", "analyze", "earlier", "pair"}

Init ==
    /\ fs \in InitialFs
    /\ cwd \in WorkDirs
    /\ cdpDir \in FewCdpDirs
    /\ call = Idle
    /\ resp = NoResp
    /\ fsB = [l \in Locs |-> Absent]
    /\ respB = NoResp

ListPrograms ==
    /\ call = Idle
    /\ call' = [op |-> "list"]
    /\ resp' = list_cdp_programs(cdpDir)
    /\ UNCHANGED <<fs, cwd, cdpDir, fsB, respB>>

GetUsage(program, subprogram, out) ==
    /\ call = Idle
    /\ call' = [op |-> "usage", program |-> program, subprogram |-> subprogram,
                out |-> IF StatKind(fs, cdpDir, PathJoin(CDP_PATH, program)) = "present"
                        THEN out ELSE NoOutcome]
    /\ resp' = get_cdp_usage(fs, cdpDir, program, subprogram, out)
    /\ UNCHANGED <<fs, cwd, cdpDir, fsB, respB>>

Execute(command, out) ==
    /\ call = Idle
    /\ LET x == execute_cdp(fs, cdpDir, cwd, command, out)
       IN  /\ call' = [op |-> "execute", command |-> command,
                       out |-> IF x.launched THEN out ELSE NoOutcome]
           /\ resp' = x.resp
           /\ fs' = x.fs
    /\ UNCHANGED <<cwd, cdpDir, fsB, respB>>

CreateDataFile(filepath, content, io) ==
    /\ call = Idle
    /\ LET x == create_data_file(fs, cdpDir, filepath, content, io)
       IN  /\ call' = [op |-> "create", filepath |-> filepath, content |-> content,
                       io |-> io]
           /\ resp' = x.resp
           /\ fs' = x.fs
    /\ UNCHANGED <<cwd, cdpDir, fsB, respB>>

AnalyzeSound(filepath, snd) ==
    /\ call = Idle
    /\ call' = [op |-> "analyze", filepath |-> filepath,
                snd |-> IF PathExists(fs, cdpDir, cwd, filepath) = "true"
                        THEN snd ELSE "unread"]
    /\ resp' = analyze_sound(fs, cdpDir, cwd, filepath, snd)
    /\ UNCHANGED <<fs, cwd, cdpDir, fsB, respB>>

\* The server hands the result to the caller and waits for the next call.
Deliver ==
    /\ call # Idle
    /\ call' = Idle
    /\ resp' = NoResp
    /\ respB' = NoResp
    /\ UNCHANGED <<fs, cwd, cdpDir, fsB>>

Next ==
    \/ ListPrograms
    \/ \E p \in Programs, s \in Subprograms, o \in FewUsageOutcomes : GetUsage(p, s, o)
    \/ \E c \in Commands, o \in ExecOutcomes : Execute(c, o)
    \/ \E a \in Args, c \in FewContents, io \in {"ok", "oserror"} : CreateDataFile(a, c, io)
    \/ \E a \in Args, snd \in {"readable", "unreadable"} : AnalyzeSound(a, snd)
    \/ Deliver

Spec == Init /\ [][Next]_vars

(***************************** one handler at a time ************************)

\* The usage probe alone, over every outcome of the probed program.
NextUsage ==
    \/ \E p \in Programs, s \in Subprograms, o \in UsageOutcomes : GetUsage(p, s, o)
    \/ Deliver

SpecUsage == Init /\ [][NextUsage]_vars

\* create_data_file alone, over every content up to MaxContentLen, for one
\* file given by its relative and by its absolute path.
DataPaths == {OutWav, TEMP_DIR \o <<"/">> \o OutWav}

NextData ==
    \/ \E a \in DataPaths, c \in Contents, io \in {"ok", "oserror"} :
          CreateDataFile(a, c, io)
    \/ Deliver

SpecData == Init /\ [][NextData]_vars

\* list_cdp_programs alone, over every install directory.
InitScan ==
    /\ fs = [l \in Locs |-> Absent]
    /\ cwd = TEMP_DIR
    /\ cdpDir \in CdpDirs
    /\ call = Idle
    /\ resp = NoResp
    /\ fsB = [l \in Locs |-> Absent]
    /\ respB = NoResp

NextScan == ListPrograms \/ Deliver

SpecScan == InitScan /\ [][NextScan]_vars

(***************************** two histories *******************************)

\* Two servers start from the same empty scratch directory, A over fs and B
\* over fsB.  A handles earlier calls that B does not; then both handle the
\* same execute call, whose process does the same in both.
InitPair ==
    /\ fs = [l \in Locs |-> Absent]
    /\ fsB = fs
    /\ cwd \in WorkDirs
    /\ cdpDir = [state |-> "ok", entries |-> {BlurEntry}]
    /\ call = Idle
    /\ resp = NoResp
    /\ respB = NoResp

EarlierCreate(filepath, content) ==
    /\ call = Idle
    /\ call' = [op |-> "earlier"]
    /\ fs' = create_data_file(fs, cdpDir, filepath, content, "ok").fs
    /\ UNCHANGED <<cwd, cdpDir, resp, fsB, respB>>

EarlierExecute(command, out) ==
    /\ call = Idle
    /\ call' = [op |-> "earlier"]
    /\ fs' = execute_cdp(fs, cdpDir, cwd, command, out).fs
    /\ UNCHANGED <<cwd, cdpDir, resp, fsB, respB>>

ExecuteBoth(command, out) ==
    /\ call = Idle
    /\ LET a == execute_cdp(fs, cdpDir, cwd, command, out)
           b == execute_cdp(fsB, cdpDir, cwd, command, out)
       IN  /\ call' = [op |-> "pair", command |-> command,
                       out |-> IF a.launched THEN out ELSE NoOutcome]
           /\ resp' = a.resp
           /\ respB' = b.resp
           /\ fs' = a.fs
           /\ fsB' = b.fs
    /\ UNCHANGED <<cwd, cdpDir>>

NextPair ==
    \/ \E a \in Args, c \in FewContents : EarlierCreate(a, c)
    \/ \E c \in Commands, o \in ExecOutcomes : EarlierExecute(c, o)
    \/ \E c \in Commands, o \in {x \in ExecOutcomes : x.kind = "exit"} : ExecuteBoth(c, o)
    \/ Deliver

SpecPair == InitPair /\ [][NextPair]_vars

(***************************** claims **************************************)

\* The status a response reports ("none" when it reports none).
Status(r) == IF "status" \in DOMAIN r THEN r.status ELSE "none"

\* The call handled last was execute_cdp with a non-empty command.
Executed == call.op = "execute" /\ call.command # <<>>

LastArg == call.command[Len(call.command)]

\* The process of the call handled last exited (it was found and launched).
Exited == call.out.kind = "exit"

\* What the call handled last got from its run: the process's exit code and
\* output, or -1 and no output when no process ran.
ExitCode == IF Exited THEN call.out.rc ELSE -1

Stdout == IF Exited THEN call.out.stdout ELSE EMPTY

StderrEmpty == Exited /\ call.out.stderr = EMPTY

ProgramMissing ==
    StatKind(fs, cdpDir, PathJoin(CDP_PATH, call.command[1])) = "absent"

\* C1: execute of a non-empty command whose program is not in the install
\* directory raises nothing and returns status 'failed' with the not-found
\* message, whatever the other arguments and the files on disk.
C1_NotFoundFails ==
    (Executed /\ ProgramMissing) =>
        /\ ~IsRaised(resp)
        /\ Status(resp) = "failed"
        /\ resp.stderr = NotFoundMsg(call.command[1], PathJoin(CDP_PATH, call.command[1]))

\* The failing input of C1: the program is missing and the response says success.
C1_MissingProgramSucceeds ==
    Executed /\ ProgramMissing /\ Status(resp) = "success"

\* C2: a response of execute reports 'success' exactly when the exit code is
\* 0, or it is 1 with stdout and without stderr, or the command has at least
\* three elements, its last argument does not start with '-' and names a file
\* that exists after the run.
C2_SuccessIff ==
    (Executed /\ ~IsRaised(resp)) =>
        (Status(resp) = "success" <=>
            \/ ExitCode = 0
            \/ (ExitCode = 1 /\ Stdout # EMPTY /\ StderrEmpty)
            \/ /\ Len(call.command) >= 3
               /\ ~StartsWith(LastArg, "-")
               /\ StatKind(fs, cdpDir, PathJoin(cwd, LastArg)) = "present")

\* The failing input of C2: success inferred from a file named like a flag.
C2_FlagFileSucceeds ==
    /\ Executed
    /\ Status(resp) = "success"
    /\ ExitCode = 2
    /\ StartsWith(LastArg, "-")

\* C3: when the process exits with code 0, execute reports 'success'.
C3_ExitZeroSucceeds ==
    (Executed /\ Exited /\ call.out.rc = 0) => Status(resp) = "success"

\* The failing input of C3: exit code 0 and no response at all.
C3_ExitZeroRaises ==
    Executed /\ Exited /\ call.out.rc = 0 /\ IsRaised(resp)

\* C4: no exception escapes a boundary operation: every call gets a response.
C4_NoExceptionEscapes == ~IsRaised(resp)

\* The failing inputs of C4, one for each operation that lets one escape.
C4_ExecuteRaisesAfterRun == call.op = "execute" /\ Exited /\ IsRaised(resp)

\* C9: when the process of a command of at least three elements creates the
\* file its last argument names (in the scratch directory, its working
\* directory, when the name is relative), the response of execute reports
\* 'success' and output_exists true, whatever the exit code.  Stated for a
\* last argument that is a file name, not a flag.
C9_CreatedOutputSucceeds ==
    ( /\ Executed
      /\ ~IsRaised(resp)
      /\ Len(call.command) >= 3
      /\ ~StartsWith(LastArg, "-")
      /\ Exited
      /\ call.out.wrote
      /\ StatKind(fs, cdpDir, PathJoin(TEMP_DIR, LastArg)) = "present" ) =>
        /\ Status(resp) = "success"
        /\ "output_exists" \in DOMAIN resp
        /\ resp.output_exists

\* The failing input of C9: the output file was created and the response
\* says failed.
C9_CreatedOutputFails ==
    /\ Executed
    /\ Len(call.command) >= 3
    /\ Exited
    /\ call.out.wrote
    /\ LastArg = OutWav
    /\ fs[PathJoin(TEMP_DIR, OutWav)].kind = "present"
    /\ Status(resp) = "failed"

\* C10: in a response of execute, output_exists comes only with output_file,
\* is true when it comes, and comes only with status 'success'.
C10_OutputExistsImpliesSuccess ==
    (call.op = "execute" /\ ~IsRaised(resp)) =>
        /\ "output_exists" \in DOMAIN resp =>
              /\ "output_file" \in DOMAIN resp
              /\ resp.output_exists = TRUE
              /\ Status(resp) = "success"
        /\ Status(resp) = "failed" => "output_exists" \notin DOMAIN resp

\* C10's case: output_exists is reported for a run that neither exit-code
\* signal calls a success.
C10_Witness ==
    /\ Executed
    /\ Exited
    /\ call.out.rc = 2
    /\ "output_exists" \in DOMAIN resp
    /\ Status(resp) = "success"

\* C5: when create_data_file reports 'success', the path it reports is the
\* given path resolved against the scratch directory, the size it reports is
\* the number of bytes stored on disk, and the stored bytes read back as the
\* content given.
C5_SizeAndRoundTrip ==
    (call.op = "create" /\ Status(resp) = "success") =>
        LET path == PathJoin(TEMP_DIR, call.filepath)
        IN  /\ resp.filepath = path
            /\ fs[path].kind = "present"
            /\ resp.size = Len(fs[path].data)
            /\ DecodeUtf8(fs[path].data) = call.content

\* The failing input of C5: the content reads back verbatim and the size
\* reported is not the number of bytes stored.
C5_SizeIsNotByteLength ==
    /\ call.op = "create"
    /\ Status(resp) = "success"
    /\ DecodeUtf8(fs[resp.filepath].data) = call.content
    /\ resp.size < Len(fs[resp.filepath].data)

\* The probe of the call handled last ran past the timeout.
TimedOut == call.op = "usage" /\ call.out.kind = "exit" /\ call.out.secs > UsageTimeout

\* What get_cdp_usage answers when the probe of an installed program times out.
TimeoutResponse(program, subprogram) ==
    get_cdp_usage(fs, [state |-> "ok",
                       entries |-> {[name |-> program, isfile |-> TRUE, exec |-> TRUE]}],
                  program, subprogram,
                  [kind |-> "exit", rc |-> 0, stdout |-> EMPTY, stderr |-> EMPTY,
                   secs |-> UsageTimeout + 1])

\* C6: a usage probe that times out still gets a response, and no probe that
\* did not time out (the program exited with any code, could not be
\* launched, or was not found) gets the response a timeout gets.
C6_TimeoutDistinct ==
    call.op = "usage" =>
        /\ TimedOut => (~IsRaised(resp) /\ resp = TimeoutResponse(call.program, call.subprogram))
        /\ ~TimedOut => resp # TimeoutResponse(call.program, call.subprogram)

\* The failing input of C6: a program that exits (ended by signal 1, exit code
\* -1) gets the response of a timeout.
C6_ExitLooksLikeTimeout ==
    /\ call.op = "usage"
    /\ call.out.kind = "exit"
    /\ call.out.secs <= UsageTimeout
    /\ call.out.rc = -1
    /\ resp = TimeoutResponse(call.program, call.subprogram)

\* C7: the mapping list_cdp_programs returns has no key mapped to an empty
\* sequence, whatever the install directory holds.
C7_NoEmptyCategory ==
    (call.op = "list" /\ ~IsRaised(resp)) => \A k \in DOMAIN resp : resp[k] # <<>>

\* C7's case: a directory with a categorized and an uncategorized executable
\* (and files that are skipped) was listed, and the categories nothing fell
\* into are not in the result.
C7_Witness ==
    /\ call.op = "list"
    /\ cdpDir.state = "ok"
    /\ \E e \in cdpDir.entries : e.name = <<".", "hidden">> /\ e.isfile /\ e.exec
    /\ \E e \in cdpDir.entries : e.name = <<"pvoc">> /\ ~e.exec
    /\ DOMAIN resp = {"Spectral Processing", "Other"}
    /\ resp["Spectral Processing"] = << <<"blur">> >>
    /\ resp["Other"] = << <<"zap">> >>

\* C8: the status execute reports depends on its own command and its own
\* process run only: after any two histories of earlier calls, the same
\* command whose process exits with the same outcome (exit code, stdout,
\* stderr, files written) gets the same status.
C8_StatusIndependentOfHistory ==
    (call.op = "pair" /\ call.out.kind = "exit") => Status(resp) = Status(respB)

\* The failing input of C8: the same command and the same process outcome (the
\* process wrote nothing) succeed after one history and fail after the other.
C8_HistoryChangesStatus ==
    /\ call.op = "pair"
    /\ call.out.kind = "exit"
    /\ ~call.out.wrote
    /\ Status(resp) = "success"
    /\ Status(respB) = "failed"

====
